---- MODULE Spec2Model ----
(***************************************************************************)
(* Model of tools/maintenance.py: the maintenance passes that regenerate   *)
(* the category TOC files, the README summary, the statistics page and the *)
(* JSON export from the entry files of the games catalog.                  *)
(*                                                                         *)
(* Texts are sequences of symbols.  A symbol is a one-character string,    *)
(* or a literal of the program (a sentinel comment, a format fragment, a   *)
(* field value) that no operation of the program ever cuts in two.  A line *)
(* break is always the one-character symbol "\n".                          *)
(***************************************************************************)
EXTENDS Integers, Sequences, FiniteSets, TLC

\* ------------------------------------------------------------------ bounds
\* the wall clock takes the values 0..MaxClock
MaxClock == 1
\* at most MaxOps passes are run in one behaviour
MaxOps == 4

\* ------------------------------------------------------- program constants
TOC == "_toc.md"

NoFile == <<"<no file>">>
NoExc == "none"

\* ------------------------------------------------------------ text helpers
\* Symbols in the order of their first character's code point; str
\* comparison in Python compares code points, position by position.
SymOrder ==
    << "\n", " ", "#", ".", "2010", "2012", "A", "B", "C", "L", "Lua", "M",
       "T", "Z", "a", "b", "c", "d", "e", "f", "g", "h", "i", "j", "k", "m" >>

Rank(c) == CHOOSE i \in DOMAIN SymOrder : SymOrder[i] = c

RECURSIVE StrLess(_, _)
StrLess(a, b) ==
    IF b = <<>> THEN FALSE
    ELSE IF a = <<>> THEN TRUE
    ELSE IF a[1] = b[1] THEN StrLess(Tail(a), Tail(b))
    ELSE Rank(a[1]) < Rank(b[1])

\* list.sort / sorted: a stable sort, Less being the strict order of the keys
SortedBy(s, Less(_, _)) ==
    LET pos(i) == 1 + Cardinality({ j \in DOMAIN s :
                        \/ Less(s[j], s[i])
                        \/ (~ Less(s[i], s[j]) /\ j < i) })
    IN  [ k \in DOMAIN s |-> s[CHOOSE i \in DOMAIN s : pos(i) = k] ]

RECURSIVE Concat(_)
Concat(ss) == IF ss = <<>> THEN <<>> ELSE Head(ss) \o Concat(Tail(ss))

\* sep.join(parts)
RECURSIVE Join(_, _)
Join(sep, parts) ==
    IF parts = <<>> THEN <<>>
    ELSE IF Len(parts) = 1 THEN parts[1]
    ELSE parts[1] \o sep \o Join(sep, Tail(parts))

Map(s, F(_)) == [ i \in DOMAIN s |-> F(s[i]) ]

Sum(s) ==
    LET RECURSIVE Acc(_)
        Acc(i) == IF i = 0 THEN 0 ELSE s[i] + Acc(i - 1)
    IN  Acc(Len(s))

\* x[2:-1]
Slice2m1(x) == SubSeq(x, 3, Len(x) - 1)

\* x[:-3]
SliceM3(x) == SubSeq(x, 1, Len(x) - 3)

\* f.readline(): the text up to and including the first line break
read_first_line(text) ==
    IF \E i \in DOMAIN text : text[i] = "\n"
    THEN SubSeq(text, 1, CHOOSE i \in DOMAIN text :
                            /\ text[i] = "\n"
                            /\ \A j \in 1..(i - 1) : text[j] # "\n")
    ELSE text

\* str.lower() of the field names of the catalog
Lower(name) ==
    CASE name = "Home" -> "home"
      [] name = "State" -> "state"
      [] name = "Language" -> "language"
      [] name = "License" -> "license"
      [] name = "Code language" -> "code language"
      [] name = "Code license" -> "code license"
      [] name = "Download" -> "download"
      [] OTHER -> name

Has(info, key) == key \in DOMAIN info

Put(info, key, value) == (key :> value) @@ info

\* ------------------------------------------------------------- parse_entry
\* An entry file is [first |-> its first line, lines |-> its field lines];
\* a field line "- Name: v1 (note), v2" is [name |-> "Name", raw |-> items],
\* an item being [text |-> a value, note |-> whether "(...)" follows it].
phrase == << "inactive since " >>

startswith(x, p) == Len(x) >= Len(p) /\ SubSeq(x, 1, Len(p)) = p

In(value, list) == \E i \in DOMAIN list : list[i] = value

\* the sub, split and strip steps of a field value
Normalise(raw) == [ i \in DOMAIN raw |-> raw[i].text ]

\* the raw value as written in the file
RawText(raw) ==
    Join(<< ",", " " >>,
         [ i \in DOMAIN raw |->
             IF raw[i].note THEN raw[i].text \o << " ", "(note)" >> ELSE raw[i].text ])

TitleMatches(content) ==
    IF Len(content.first) >= 2 /\ content.first[1] = "#" /\ content.first[2] = " "
    THEN << SelectSeq(SubSeq(content.first, 3, Len(content.first)),
                      LAMBDA c : c # "\n") >>
    ELSE << >>

FieldMatches(content, field) ==
    SelectSeq(content.lines, LAMBDA l : l.name = field)

RECURSIVE ParseFields(_, _, _)
ParseFields(content, i, info) ==
    IF i > Len(content.lines) THEN [exc |-> NoExc, info |-> info]
    ELSE IF Len(FieldMatches(content, content.lines[i].name)) # 1
    THEN [exc |-> "AssertionError", info |-> info]
    ELSE ParseFields(content, i + 1,
            Put(Put(info, Lower(content.lines[i].name) \o "-raw",
                    RawText(content.lines[i].raw)),
                Lower(content.lines[i].name), Normalise(content.lines[i].raw)))

\* the chained comparison  'beta' in v != 'mature' in v
StateCheckFails(v) ==
    /\ In(<< "beta" >>, v)
    /\ v # << "mature" >>
    /\ In(<< "mature" >>, v)

MissingEssential(info) ==
    SelectSeq(<< "home", "state" >>, LAMBDA f : ~ Has(info, f))

InactiveYear(state) ==
    Map(SelectSeq(state, LAMBDA x : startswith(x, phrase)),
        LAMBDA x : SubSeq(x, Len(phrase) + 1, Len(x)))

\* the checks of parse_entry on the mapping the field loop has built
CheckInfo(info) ==
    IF MissingEssential(info) # << >>
    THEN [exc |-> NoExc, info |-> info,
          out |-> << [msg |-> "Essential field missing",
                      field |-> MissingEssential(info)[1], title |-> info["title"]] >>]
    \* printf is not a name of Python
    ELSE IF StateCheckFails(info["state"])
    THEN [exc |-> "NameError", info |-> << >>, out |-> << >>]
    ELSE [exc |-> NoExc,
          info |-> IF InactiveYear(info["state"]) # << >>
                   THEN Put(info, "inactive", InactiveYear(info["state"]))
                   ELSE info,
          out |-> << >>]

CheckParsed(parsed) ==
    IF parsed.exc # NoExc
    THEN [exc |-> parsed.exc, info |-> << >>, out |-> << >>]
    ELSE CheckInfo(parsed.info)

parse_entry(content) ==
    IF Len(TitleMatches(content)) # 1
    THEN [exc |-> "AssertionError", info |-> << >>, out |-> << >>]
    ELSE CheckParsed(ParseFields(content, 1, [title |-> TitleMatches(content)[1]]))

\* ---------------------------------------------------------- catalog walker
\* The games directory is the sequence of its category directories in the
\* order os.listdir returns them.  A category directory is
\*   [name |-> its base name, toc |-> the text of its _toc.md,
\*    entries |-> its regular files other than _toc.md, in listdir order,
\*    others |-> the number of its children that are not regular files];
\* an entry file is [file |-> its base name, content |-> its text,
\*                   links |-> the URLs in it, each with what a fetch yields].
get_category_paths(games_path) == [ i \in DOMAIN games_path |-> i ]

get_entry_paths(category) == category.entries

\* len(os.listdir(path))
ListdirLen(category) == 1 + Len(category.entries) + category.others

\* write_text with mode='a' in place of mode='w'
write_text_append(file, text) == IF file = NoFile THEN text ELSE file \o text

\* open(file, mode='w').write(text): the old content is replaced
write_text(file, text) == text

\* -------------------------------------------------- exceptions in a loop
\* results[i] is what iteration i of a loop does when the loop reaches it;
\* the loop ends at the first iteration that raises
Reached(results, i) == \A j \in 1..(i - 1) : results[j].exc = NoExc

FirstExc(results) ==
    IF \E i \in DOMAIN results : results[i].exc # NoExc
    THEN results[CHOOSE i \in DOMAIN results :
                    results[i].exc # NoExc /\ Reached(results, i)].exc
    ELSE NoExc

\* what the iterations up to the raising one have printed
OutUntilExc(results) ==
    Concat([ i \in DOMAIN results |->
               IF Reached(results, i) THEN results[i].out ELSE << >> ])

\* ----------------------------------------------------------- TOC generator
StartMark == "[comment]: # (start of autogenerated content, do not edit)"
EndMark == "[comment]: # (end of autogenerated content)"

Overview(parsed) ==
    [exc |-> parsed.exc, out |-> parsed.out,
     output |->
        IF parsed.exc # NoExc THEN << >>
        ELSE Join(<< ",", " " >>,
                (IF Has(parsed.info, "code language")
                 THEN parsed.info["code language"] ELSE << >>)
                \o (IF Has(parsed.info, "code license")
                    THEN parsed.info["code license"] ELSE << >>)
                \o (IF Has(parsed.info, "state") THEN parsed.info["state"] ELSE << >>))]

extract_overview_for_toc(content) == Overview(parse_entry(content))

TocLines(info) ==
    Concat(Map(info, LAMBDA e :
        << "- **[" >> \o e[1] \o << "](" >> \o e[2] \o << ")** (" >> \o e[3]
            \o << ")", "\n" >>))

\* the text written to the TOC file of a category, more being the overviews
TocText(category, more) ==
    read_first_line(category.toc)
    \o << "\n", StartMark, "\n" >>
    \o TocLines(SortedBy(
            [ i \in DOMAIN get_entry_paths(category) |->
                << Slice2m1(read_first_line(get_entry_paths(category)[i].content.first)),
                   get_entry_paths(category)[i].file,
                   more[i].output >> ],
            LAMBDA a, b : StrLess(a[1], b[1])))
    \o << "\n", EndMark >>

TocResult(category, more) ==
    [exc |-> FirstExc(more),
     out |-> << [msg |-> "generate toc for", name |-> category.name] >>
                \o OutUntilExc(more),
     toc |-> IF FirstExc(more) = NoExc THEN TocText(category, more) ELSE category.toc]

\* the body of the loop of update_category_tocs for one category
GenerateToc(category) ==
    TocResult(category,
              Map(get_entry_paths(category), LAMBDA e : extract_overview_for_toc(e.content)))

\* The loop writes each TOC file before it goes on to the next category: a
\* category that raises leaves the TOC files written before it in place.
TocLoop(games_path, results) ==
    [exc |-> FirstExc(results),
     out |-> OutUntilExc(results),
     games |-> [ i \in DOMAIN games_path |->
                   IF Reached(results, i + 1)
                   THEN [games_path[i] EXCEPT !.toc = results[i].toc]
                   ELSE games_path[i] ]]

update_category_tocs(games_path) == TocLoop(games_path, Map(games_path, GenerateToc))

\* -------------------------------------------------------- readme generator
Heading == "# Open Source Games"
Trailer == "A collection"

\* re.compile(r"(# Open Source Games\n\n)(.*)(\nA collection.*)", re.DOTALL):
\* the places of the heading and of the trailer's line break in a match
HeadingAt(text, i) ==
    /\ i + 2 <= Len(text)
    /\ text[i] = Heading /\ text[i + 1] = "\n" /\ text[i + 2] = "\n"

TrailerAt(text, j) ==
    /\ j + 1 <= Len(text)
    /\ text[j] = "\n" /\ text[j + 1] = Trailer

MatchPairs(text) ==
    { p \in (DOMAIN text) \X (DOMAIN text) :
        HeadingAt(text, p[1]) /\ TrailerAt(text, p[2]) /\ p[2] >= p[1] + 3 }

\* the leftmost heading, and as .* is greedy the last trailer
MatchGroups(text, pairs) ==
    IF pairs = {} THEN << >>
    ELSE LET i == CHOOSE a \in { p[1] : p \in pairs } :
                     \A b \in { p[1] : p \in pairs } : a <= b
             j == CHOOSE a \in { p[2] : p \in pairs } :
                     \A b \in { p[2] : p \in pairs } : a >= b
         IN  << << SubSeq(text, i, i + 2), SubSeq(text, i + 3, j - 1),
                   SubSeq(text, j, Len(text)) >> >>

ReadmeMatches(text) == MatchGroups(text, MatchPairs(text))

ReadmeLines(info) ==
    Concat(Map(info, LAMBDA e :
        << "- **[" >> \o e[1] \o << "](games/", e[2], "/", TOC, ")** (",
           ToString(e[3]), ")", "\n" >>))

NEntries(games_path) ==
    Map(get_category_paths(games_path), LAMBDA p : ListdirLen(games_path[p]) - 1)

ReadmeUpdate(games_path) ==
    << ToString(Sum(NEntries(games_path))), " entries", "\n" >>
    \o ReadmeLines(SortedBy(
            [ i \in DOMAIN games_path |->
                << Slice2m1(read_first_line(games_path[i].toc)),
                   games_path[i].name,
                   NEntries(games_path)[i] >> ],
            LAMBDA a, b : StrLess(a[1], b[1])))

WriteReadme(readme_file, matches, games_path) ==
    IF Len(matches) # 1
    THEN [exc |-> "AssertionError", out |-> << [msg |-> "update readme file"] >>,
          readme |-> readme_file]
    ELSE [exc |-> NoExc, out |-> << [msg |-> "update readme file"] >>,
          readme |-> write_text(readme_file,
                        matches[1][1] \o << StartMark, "\n" >> \o ReadmeUpdate(games_path)
                            \o << "\n", EndMark >> \o matches[1][3])]

update_readme(readme_file, games_path) ==
    WriteReadme(readme_file, ReadmeMatches(readme_file), games_path)

\* ---------------------------------------------------------- assemble_infos
\* the entries of the catalog, in the order the two loops visit them
AllEntries(games_path) ==
    Concat([ c \in DOMAIN games_path |->
               [ e \in DOMAIN get_entry_paths(games_path[c]) |->
                   [category |-> Slice2m1(read_first_line(games_path[c].toc)),
                    entry |-> get_entry_paths(games_path[c])[e]] ] ])

Assembled(all, parsed) ==
    [exc |-> FirstExc(parsed),
     out |-> OutUntilExc(parsed),
     infos |-> IF FirstExc(parsed) # NoExc THEN << >>
               ELSE [ i \in DOMAIN all |->
                        Put(Put(parsed[i].info, "category", all[i].category),
                            "file", SliceM3(all[i].entry.file)) ]]

ParseAll(all) == Assembled(all, Map(all, LAMBDA a : parse_entry(a.entry.content)))

assemble_infos(games_path) == ParseAll(AllEntries(games_path))

\* ----------------------------------------------------- statistics generator
\* '{:.1f}'.format(num / den * 100), for the totals below 16 that the model
\* reaches, where no value lies half way between two tenths
Percent(num, den) ==
    ToString(((2000 * num + den) \div (2 * den)) \div 10) \o "."
        \o ToString(((2000 * num + den) \div (2 * den)) % 10)

\* datetime.datetime.now().strftime('%Y-%m-%d %H:%M:%S')
Timestamp(now) == "time " \o ToString(now)

Count(s, Test(_)) == Len(SelectSeq(s, Test))

FilesWithout(infos, key) ==
    SortedBy(Map(SelectSeq(infos, LAMBDA x : ~ Has(x, key)), LAMBDA x : x["file"]),
             StrLess)

\* the lines 'Without ... tag: n (p%)' followed by the sorted file names
WithoutTag(infos, key, label) ==
    IF Count(infos, LAMBDA x : ~ Has(x, key)) > 0
    THEN << label, ToString(Count(infos, LAMBDA x : ~ Has(x, key))), " (",
            Percent(Count(infos, LAMBDA x : ~ Has(x, key)), Len(infos)),
            "%)", "\n", "\n" >>
         \o Join(<< ",", " " >>, FilesWithout(infos, key)) \o << "\n", "\n" >>
    ELSE << >>

\* list(set(values)), in the order the sort by name leaves
RECURSIVE Unique(_)
Unique(S) ==
    IF S = {} THEN << >>
    ELSE LET v == CHOOSE u \in S : \A w \in S : ~ StrLess(w, u)
         IN  << v >> \o Unique(S \ {v})

Counted(values) ==
    Map(Unique({ values[i] : i \in DOMAIN values }),
        LAMBDA l : << l, Count(values, LAMBDA u : u = l) >>)

FrequencyLines(values, sorted) ==
    Concat(Map(sorted, LAMBDA e :
        << "- " >> \o e[1] \o << " (", Percent(e[2], Len(values)), "%)", "\n" >>))

\* the '- name (p%)' lines of a list of tag values, sorted by name and then,
\* keeping that order among equals, by falling frequency
Frequency(values) ==
    FrequencyLines(values,
        SortedBy(SortedBy(Counted(values), LAMBDA a, b : StrLess(a[1], b[1])),
                 LAMBDA a, b : a[2] > b[2]))

Languages(infos) ==
    Concat(Map(SelectSeq(infos, LAMBDA x : Has(x, "language")),
               LAMBDA x : x["language"]))

Licenses(infos) ==
    Map(SelectSeq(infos, LAMBDA x : Has(x, "license")), LAMBDA x : x["license"])

StateLine(label, number, number_entries) ==
    << label, ToString(number), " (", Percent(number, number_entries), "%)", "\n" >>

\* the page, for entries that all have a state and of which none is inactive
StatisticsText(infos, now) ==
    << "[comment]: # (autogenerated content, do not edit)", "\n",
       "# Statistics", "\n", "\n",
       "analyzed ", ToString(Len(infos)), " entries on ", Timestamp(now), "\n", "\n",
       "## State", "\n", "\n" >>
    \o StateLine("- mature: ", Count(infos, LAMBDA x : In(<< "mature" >>, x["state"])),
                 Len(infos))
    \o StateLine("- beta: ", Count(infos, LAMBDA x : In(<< "beta" >>, x["state"])),
                 Len(infos))
    \o StateLine("- inactive: ", Count(infos, LAMBDA x : Has(x, "inactive")), Len(infos))
    \o << "\n" >>
    \o (IF FilesWithout(infos, "state") # << >>
        THEN << "##### Without state tag (", ToString(Len(FilesWithout(infos, "state"))),
                ")", "\n", "\n" >>
             \o Join(<< ",", " " >>, FilesWithout(infos, "state")) \o << "\n", "\n" >>
        ELSE << >>)
    \o << "## Languages", "\n", "\n" >>
    \o WithoutTag(infos, "language", "Without language tag: ")
    \o << "##### Language frequency", "\n", "\n" >>
    \o Frequency(Languages(infos)) \o << "\n" >>
    \o << "## Code licenses", "\n", "\n" >>
    \o WithoutTag(infos, "license", "Without license tag: ")
    \o << "##### Licenses frequency", "\n", "\n", "\n" >>

Statistics(statistics_file, assembled, now) ==
    IF assembled.exc # NoExc
    THEN [exc |-> assembled.exc, out |-> assembled.out, statistics |-> statistics_file]
    \* x['state'] of an entry without a state
    ELSE IF \E i \in DOMAIN assembled.infos : ~ Has(assembled.infos[i], "state")
    THEN [exc |-> "KeyError", out |-> assembled.out, statistics |-> statistics_file]
    \* rel(x) divides by number_entries
    ELSE IF Len(assembled.infos) = 0
    THEN [exc |-> "ZeroDivisionError", out |-> assembled.out,
          statistics |-> statistics_file]
    \* entries_inactive.sort(key=lambda x: -x[1]) negates a list
    ELSE IF Count(assembled.infos, LAMBDA x : Has(x, "inactive")) > 0
    THEN [exc |-> "TypeError", out |-> assembled.out, statistics |-> statistics_file]
    \* set(licenses) hashes the value lists
    ELSE IF Licenses(assembled.infos) # << >>
    THEN [exc |-> "TypeError", out |-> assembled.out, statistics |-> statistics_file]
    ELSE [exc |-> NoExc, out |-> assembled.out,
          statistics |-> StatisticsText(assembled.infos, now)]

generate_statistics(statistics_file, games_path, now) ==
    Statistics(statistics_file, assemble_infos(games_path), now)

\* ------------------------------------------------------------ JSON exporter
\* json.dumps of a str
Quoted(str) == << "\"" >> \o str \o << "\"" >>

JsonEntries(infos) ==
    Map(infos, LAMBDA info :
        << info["title"],
           IF Has(info, "download") THEN info["download"][1] ELSE << >> >>)

\* json.dumps(db)
JsonText(entries) ==
    << "{", "\"headings\": [\"Name\", \"Download\"]", ", ", "\"data\": ", "[" >>
    \o Join(<< ", " >>, Map(entries, LAMBDA e :
           << "[" >> \o Quoted(e[1]) \o << ", " >> \o Quoted(e[2]) \o << "]" >>))
    \o << "]", "}" >>

Export(json_file, assembled) ==
    IF assembled.exc # NoExc
    THEN [exc |-> assembled.exc, out |-> assembled.out, json |-> json_file]
    ELSE [exc |-> NoExc, out |-> assembled.out,
          json |-> write_text(json_file, JsonText(JsonEntries(assembled.infos)))]

export_json(json_file, games_path) == Export(json_file, assemble_infos(games_path))

\* ------------------------------------------------------------- link checker
\* what lines 225-234 do with one URL, by what the fetch of it yields
CheckLink(entry, link) ==
    CASE link.fetch = "HTTPError" ->
            [exc |-> NoExc, checked |-> 1,
             out |-> << [msg |-> "http error", file |-> entry.file, url |-> link.url] >>]
      [] link.fetch = "RemoteDisconnected" ->
            [exc |-> NoExc, checked |-> 1,
             out |-> << [msg |-> "disconnected without response",
                         file |-> entry.file, url |-> link.url] >>]
      [] link.fetch = "URLError" -> [exc |-> "URLError", checked |-> 0, out |-> << >>]
      [] OTHER -> [exc |-> NoExc, checked |-> 1, out |-> << >>]

\* open(entry_path, 'r', 'utf-8') passes 'utf-8' as the buffering argument
OpenEntry(entry) == [exc |-> "TypeError"]

\* a loop over results that each count the links they checked
Checked(results) ==
    Sum([ i \in DOMAIN results |->
            IF Reached(results, i) THEN results[i].checked ELSE 0 ])

LoopResult(printed, results) ==
    [exc |-> FirstExc(results), out |-> printed \o OutUntilExc(results),
     checked |-> Checked(results)]

CheckEntryLinks(entry) ==
    IF OpenEntry(entry).exc # NoExc
    THEN [exc |-> OpenEntry(entry).exc, out |-> << >>, checked |-> 0]
    ELSE LoopResult(<< >>, Map(entry.links, LAMBDA l : CheckLink(entry, l)))

CheckCategoryLinks(category) ==
    LoopResult(<< [msg |-> "check links for", name |-> category.name] >>,
               Map(get_entry_paths(category), CheckEntryLinks))

LinksChecked(result) ==
    IF result.exc # NoExc THEN result
    ELSE [result EXCEPT !.out = @ \o << [msg |-> "links checked", n |-> result.checked] >>]

check_validity_external_links(games_path) ==
    LinksChecked(LoopResult(<< >>, Map(games_path, CheckCategoryLinks)))

\* ------------------------------------------------------------ the catalogs
Field(name, raw) == [name |-> name, raw |-> raw]
Item(text) == [text |-> text, note |-> FALSE]
Noted(text) == [text |-> text, note |-> TRUE]
Link(url, fetch) == [url |-> url, fetch |-> fetch]
Entry(file, first, lines, links) ==
    [file |-> << file, ".", "m", "d" >>,
     content |-> [first |-> first, lines |-> lines], links |-> links]

Home == Field("Home", << Item(<< "http://home" >>) >>)
Beta == Item(<< "beta" >>)
Mature == Item(<< "mature" >>)

eGood ==
    Entry("a", << "#", " ", "B", "\n" >>,
          << Home, Field("State", << Beta >>),
             Field("Code language", << Noted(<< "C" >>) >>),
             Field("Download", << Item(<< "http://get" >>), Item(<< "http://alt" >>) >>) >>,
          << Link("http://home", "ok"), Link("http://get", "HTTPError") >>)
eMature ==
    Entry("b", << "#", " ", "A", "\n" >>,
          << Home, Field("State", << Mature >>),
             Field("Language", << Noted(<< "Lua" >>), Item(<< "C" >>), Item(<< "Lua" >>) >>) >>,
          << Link("http://home", "RemoteDisconnected") >>)
eNoTitle ==
    Entry("c", << "Z", "\n" >>, << Home, Field("State", << Beta >>) >>,
          << Link("http://home", "URLError") >>)
eDupField ==
    Entry("d", << "#", " ", "C", "\n" >>,
          << Home, Field("State", << Beta >>), Field("State", << Mature >>) >>, << >>)
eNoHome ==
    Entry("e", << "#", " ", "C", "\n" >>, << Field("State", << Beta >>) >>, << >>)
eNoState ==
    Entry("f", << "#", " ", "C", "\n" >>, << Home >>, << Link("http://home", "ok") >>)
eBoth ==
    Entry("g", << "#", " ", "C", "\n" >>, << Home, Field("State", << Beta, Mature >>) >>, << >>)
eNeither ==
    Entry("h", << "#", " ", "C", "\n" >>,
          << Home, Field("State", << Item(<< "alpha" >>) >>) >>, << >>)
eInactive ==
    Entry("i", << "#", " ", "C", "\n" >>,
          << Home, Field("State", << Beta, Item(<< "inactive since ", "2010" >>) >>) >>, << >>)
eInactive2 ==
    Entry("j", << "#", " ", "M", "\n" >>,
          << Home, Field("State", << Mature, Item(<< "inactive since ", "2012" >>) >>) >>,
          << >>)
eLicense ==
    Entry("k", << "#", " ", "C", "\n" >>,
          << Home, Field("State", << Mature >>), Field("License", << Item(<< "MIT" >>) >>) >>,
          << >>)

EntryLists ==
    { << >>, << eGood >>, << eNoTitle >>, << eDupField >>, << eNoHome >>,
      << eNoState >>, << eBoth >>, << eNeither >>, << eInactive >>, << eLicense >>,
      << eGood, eMature >>, << eNoTitle, eGood >>, << eGood, eNoState >>,
      << eInactive, eInactive2 >> }

\* a TOC file that holds its header line only, with and without a line break
TocHeader == << "#", " ", "A", "b", "\n" >>
TocNoNewline == << "#", " ", "A", "b" >>
\* a generated TOC file with a hand-written line after the end marker
TocHandWritten ==
    << "#", " ", "A", "b", "\n", "\n", StartMark, "\n", "\n", EndMark, "\n",
       "see also the wiki", "\n" >>
Tocs == { TocHeader, TocNoNewline, TocHandWritten }

Category(name, toc, entries, others) ==
    [name |-> name, toc |-> toc, entries |-> entries, others |-> others]

Rpg(entries) == Category("rpg", << "#", " ", "A", "\n" >>, entries, 0)

Readme == << Heading, "\n", "\n", "1 entries", "\n", "\n", Trailer, " of games", "\n" >>
ReadmeBadge == << "badge", "\n" >> \o Readme
ReadmeNoTrailer == << Heading, "\n", "\n", "1 entries", "\n" >>
Readmes == { Readme, ReadmeBadge, ReadmeNoTrailer }

\* ------------------------------------------------------- the state machine
VARIABLES
    games,            \* the games directory
    readme_file,      \* the text of README.md
    statistics_file,  \* the text of games/statistics.md, NoFile before it is written
    json_file,        \* the text of docs/data.json, NoFile before it is written
    clock,            \* what datetime.now() returns
    log               \* the passes run so far: [op, exc, out, at]

vars == << games, readme_file, statistics_file, json_file, clock, log >>

Init ==
    /\ \/ /\ games \in { << Category("arcade", TocHeader, entries, 0), Rpg(<< >>) >> :
                            entries \in EntryLists }
          /\ readme_file = Readme
       \/ /\ games \in { << Category("arcade", toc, << eGood >>, others), Rpg(<< eMature >>) >> :
                            toc \in Tocs, others \in 0..1 }
          /\ readme_file = Readme
       \/ /\ games = << Category("arcade", TocHeader, << eGood >>, 0), Rpg(<< >>) >>
          /\ readme_file \in Readmes
    /\ statistics_file = NoFile
    /\ json_file = NoFile
    /\ clock = 0
    /\ log = << >>

Logged(op, r) == Append(log, [op |-> op, exc |-> r.exc, out |-> r.out, at |-> clock])

RunUpdateReadme ==
    /\ Len(log) < MaxOps
    /\ \E r \in { update_readme(readme_file, games) } :
          /\ readme_file' = r.readme
          /\ log' = Logged("update_readme", r)
    /\ UNCHANGED << games, statistics_file, json_file, clock >>

RunUpdateCategoryTocs ==
    /\ Len(log) < MaxOps
    /\ \E r \in { update_category_tocs(games) } :
          /\ games' = r.games
          /\ log' = Logged("update_category_tocs", r)
    /\ UNCHANGED << readme_file, statistics_file, json_file, clock >>

RunGenerateStatistics ==
    /\ Len(log) < MaxOps
    /\ \E r \in { generate_statistics(statistics_file, games, clock) } :
          /\ statistics_file' = r.statistics
          /\ log' = Logged("generate_statistics", r)
    /\ UNCHANGED << games, readme_file, json_file, clock >>

RunExportJson ==
    /\ Len(log) < MaxOps
    /\ \E r \in { export_json(json_file, games) } :
          /\ json_file' = r.json
          /\ log' = Logged("export_json", r)
    /\ UNCHANGED << games, readme_file, statistics_file, clock >>

RunCheckValidityExternalLinks ==
    /\ Len(log) < MaxOps
    /\ \E r \in { check_validity_external_links(games) } :
          log' = Logged("check_validity_external_links",
                        [exc |-> r.exc, out |-> r.out])
    /\ UNCHANGED << games, readme_file, statistics_file, json_file, clock >>

\* time passes between two passes
Tick ==
    /\ clock < MaxClock
    /\ clock' = clock + 1
    /\ UNCHANGED << games, readme_file, statistics_file, json_file, log >>

Next ==
    \/ RunUpdateReadme
    \/ RunUpdateCategoryTocs
    \/ RunGenerateStatistics
    \/ RunExportJson
    \/ RunCheckValidityExternalLinks
    \/ Tick

Spec == Init /\ [][Next]_vars

\* ------------------------------------------------------- reading the files
Last(s) == s[Len(s)]

\* the step is a run of pass op
IsRun(op) == Len(log') = Len(log) + 1 /\ Last(log').op = op

ParsingPasses == { "update_category_tocs", "generate_statistics", "export_json" }

Generators == { "update_readme", "update_category_tocs", "generate_statistics",
                "export_json" }

IsPrefix(a, b) == Len(a) <= Len(b) /\ SubSeq(b, 1, Len(a)) = a

IsSuffix(a, b) == Len(a) <= Len(b) /\ SubSeq(b, Len(b) - Len(a) + 1, Len(b)) = a

Contains(text, part) ==
    \E i \in 1..(Len(text) + 1) :
        i + Len(part) - 1 <= Len(text) /\ SubSeq(text, i, i + Len(part) - 1) = part

FirstAt(text, symbol) ==
    CHOOSE i \in DOMAIN text : text[i] = symbol /\ \A j \in 1..(i - 1) : text[j] # symbol

\* what a TOC file holds before its start marker and after its end marker
BeforeStart(toc) ==
    IF \E i \in DOMAIN toc : toc[i] = StartMark
    THEN SubSeq(toc, 1, FirstAt(toc, StartMark) - 1)
    ELSE toc

AfterEnd(toc) ==
    IF \E i \in DOMAIN toc : toc[i] = EndMark
    THEN SubSeq(toc, FirstAt(toc, EndMark) + 1, Len(toc))
    ELSE << >>

Bullets(toc) == Cardinality({ i \in DOMAIN toc : toc[i] = "- **[" })

\* the count the README line of a category shows, and the total it shows
ReadmeCount(text, name) ==
    text[(CHOOSE i \in DOMAIN text : text[i] = "](games/" /\ text[i + 1] = name) + 5]

ReadmeTotal(text) == text[FirstAt(text, " entries") - 1]

EntriesOf(games_path) == { a.entry : a \in { AllEntries(games_path)[i] :
                                              i \in DOMAIN AllEntries(games_path) } }

\* diagnostics are the printed lines that are not progress lines
ProgressLines == { "update readme file", "generate toc for", "check links for",
                   "links checked" }

Diagnostics(out) == SelectSeq(out, LAMBDA line : line.msg \notin ProgressLines)

\* the page with its time of writing blanked
WithoutTimestamp(text) ==
    [ i \in DOMAIN text |->
        IF i > 1 /\ text[i - 1] = " entries on " THEN "<time>" ELSE text[i] ]

\* ---------------------------------------------------------------- C1
\* C1: a run of update_category_tocs, or of update_readme, that directly
\* follows a completed run of the same pass leaves every TOC file and the
\* README as the first run wrote them.
C1_RegenerationIdempotent ==
    [][ ( /\ log # << >>
          /\ Last(log).op \in { "update_category_tocs", "update_readme" }
          /\ Last(log).exc = NoExc
          /\ IsRun(Last(log).op) )
        => ( games' = games /\ readme_file' = readme_file ) ]_vars

\* ---------------------------------------------------------------- C2
\* C2: a completed run of update_category_tocs keeps, in every TOC file, the
\* header line, what stood before the start marker and what stood after the
\* end marker.
C2_OutsideMarkersPreserved ==
    [][ ( IsRun("update_category_tocs") /\ Last(log').exc = NoExc )
        => \A c \in DOMAIN games :
              /\ IsPrefix(read_first_line(games[c].toc), games'[c].toc)
              /\ IsPrefix(BeforeStart(games[c].toc), games'[c].toc)
              /\ IsSuffix(AfterEnd(games[c].toc), games'[c].toc) ]_vars

\* ---------------------------------------------------------------- C3
NoTitle(entry) == Len(TitleMatches(entry.content)) # 1

DuplicateField(entry) ==
    \E i, j \in DOMAIN entry.content.lines :
        i # j /\ entry.content.lines[i].name = entry.content.lines[j].name

\* C3: on a catalog with an entry that has no title heading or a field line
\* twice, every run of a pass that parses the entries completes and prints a
\* diagnostic.
C3_ParseProblemsNeverAbort ==
    \A i \in DOMAIN log :
        ( /\ log[i].op \in ParsingPasses
          /\ \E e \in EntriesOf(games) : NoTitle(e) \/ DuplicateField(e) )
        => ( log[i].exc = NoExc /\ Diagnostics(log[i].out) # << >> )

\* ---------------------------------------------------------------- C4
Parses(entry) == parse_entry(entry.content).exc = NoExc

Lacks(entry, field) ==
    Parses(entry) /\ ~ Has(parse_entry(entry.content).info, field)

\* C4: on a catalog whose entries all parse and of which one lacks home or
\* state, every run of a pass that parses the entries completes, and the
\* statistics page lists the entries without state under its heading.
C4_MissingFieldsTolerated ==
    \A i \in DOMAIN log :
        ( /\ log[i].op \in ParsingPasses
          /\ \A e \in EntriesOf(games) : Parses(e)
          /\ \E e \in EntriesOf(games) : Lacks(e, "home") \/ Lacks(e, "state") )
        => /\ log[i].exc = NoExc
           /\ ( ( log[i].op = "generate_statistics"
                  /\ \E e \in EntriesOf(games) : Lacks(e, "state") )
                => Contains(statistics_file, << "##### Without state tag (" >>) )

\* ---------------------------------------------------------------- C5
HasHomeAndState(entry) ==
    /\ ~ NoTitle(entry)
    /\ ~ DuplicateField(entry)
    /\ \E i \in DOMAIN entry.content.lines : entry.content.lines[i].name = "Home"
    /\ \E i \in DOMAIN entry.content.lines : entry.content.lines[i].name = "State"

StateOf(entry) ==
    Normalise(entry.content.lines[CHOOSE i \in DOMAIN entry.content.lines :
                                    entry.content.lines[i].name = "State"].raw)

ExactlyOneOfBetaMature(v) == In(<< "beta" >>, v) # In(<< "mature" >>, v)

StateWarned(result) ==
    \E k \in DOMAIN result.out :
        result.out[k].msg = "State must be one of <beta, mature>"

\* C5: once a pass that parses the entries has run, parse_entry returns for
\* every entry with home and state, and has warned about the state exactly
\* when the state values do not hold exactly one of beta and mature.
C5_StateWarningExactlyWhenInvalid ==
    ( log # << >> /\ Last(log).op \in ParsingPasses )
    => \A e \in EntriesOf(games) :
          HasHomeAndState(e)
          => /\ parse_entry(e.content).exc = NoExc
             /\ StateWarned(parse_entry(e.content)) <=> ~ ExactlyOneOfBetaMature(StateOf(e))

\* ---------------------------------------------------------------- C6
\* the README, the TOC files and the JSON export after one more pass
AfterPass(op, files) ==
    CASE op = "update_readme" ->
            [files EXCEPT !.readme = update_readme(files.readme, files.games).readme]
      [] op = "update_category_tocs" ->
            [files EXCEPT !.games = update_category_tocs(files.games).games]
      [] op = "export_json" ->
            [files EXCEPT !.json = export_json(files.json, files.games).json]
      [] OTHER -> files

RECURSIVE AfterPasses(_, _)
AfterPasses(order, files) ==
    IF order = << >> THEN files
    ELSE AfterPasses(Tail(order), AfterPass(Head(order), files))

Orders == { order \in [1..4 -> Generators] :
              \A i, j \in 1..4 : order[i] = order[j] => i = j }

\* C6: from the catalog as it stands before any pass, the four generators
\* leave the same README, TOC files and JSON export in whatever order they run.
C6_GeneratorsOrderIndependent ==
    log = << >>
    => \A o1, o2 \in Orders :
          AfterPasses(o1, [games |-> games, readme |-> readme_file, json |-> json_file])
          = AfterPasses(o2, [games |-> games, readme |-> readme_file, json |-> json_file])

\* ---------------------------------------------------------------- C7
TotalLinks(games_path) ==
    Sum(Map(AllEntries(games_path), LAMBDA a : Len(a.entry.links)))

Diagnosed(out, entry, link) ==
    \E k \in DOMAIN out :
        /\ "url" \in DOMAIN out[k]
        /\ out[k].url = link.url
        /\ out[k].file = entry.file

\* C7: every run of check_validity_external_links completes, prints a
\* diagnostic for each link whose fetch fails and ends by printing the number
\* of links of the catalog as the number of links checked.
C7_LinkCheckNeverAborts ==
    \A i \in DOMAIN log :
        log[i].op = "check_validity_external_links"
        => /\ log[i].exc = NoExc
           /\ Last(log[i].out) = [msg |-> "links checked", n |-> TotalLinks(games)]
           /\ \A e \in EntriesOf(games) : \A k \in DOMAIN e.links :
                 e.links[k].fetch # "ok" => Diagnosed(log[i].out, e, e.links[k])

\* ---------------------------------------------------------------- C8
InactiveValues(entry) ==
    IF \E i \in DOMAIN entry.content.lines : entry.content.lines[i].name = "State"
    THEN SelectSeq(StateOf(entry), LAMBDA x : startswith(x, phrase))
    ELSE << >>

Marker(entry) ==
    SubSeq(InactiveValues(entry)[1], Len(phrase) + 1, Len(InactiveValues(entry)[1]))

RECURSIVE SeqOf(_)
SeqOf(S) == IF S = {} THEN << >>
            ELSE LET e == CHOOSE x \in S : TRUE IN << e >> \o SeqOf(S \ {e})

\* the inactive entries by falling marker and, among equals, by file name
InactiveListing(games_path) ==
    Join(<< ",", " " >>,
         Map(SortedBy(SortedBy(SeqOf({ e \in EntriesOf(games_path) :
                                          InactiveValues(e) # << >> }),
                               LAMBDA a, b : StrLess(a.file, b.file)),
                      LAMBDA a, b : StrLess(Marker(b), Marker(a))),
             LAMBDA e : SliceM3(e.file) \o << " (" >> \o Marker(e) \o << ")" >>))

\* C8: on a catalog whose entries all parse and of which one has an inactive
\* marker, every run of generate_statistics completes and the page lists the
\* inactive entries, by falling marker and then by file name.
C8_InactiveEntriesListed ==
    \A i \in DOMAIN log :
        ( /\ log[i].op = "generate_statistics"
          /\ \A e \in EntriesOf(games) : Parses(e)
          /\ \E e \in EntriesOf(games) : InactiveValues(e) # << >> )
        => /\ log[i].exc = NoExc
           /\ Contains(statistics_file,
                       << "##### Inactive State", "\n", "\n" >>
                          \o InactiveListing(games) \o << "\n", "\n" >>)

\* ---------------------------------------------------------------- C9
\* the step is a completed run of op that follows an earlier completed one
IsRepeatedRun(op) ==
    /\ IsRun(op)
    /\ Last(log').exc = NoExc
    /\ \E i \in DOMAIN log : log[i].op = op /\ log[i].exc = NoExc

\* C9 as stated: a completed run of generate_statistics or of export_json
\* that follows an earlier completed run of the same pass leaves
\* statistics.md and data.json byte for byte as they were.
C9_StatisticsAndExportIdempotent ==
    [][ ( IsRepeatedRun("generate_statistics") \/ IsRepeatedRun("export_json") )
        => ( statistics_file' = statistics_file /\ json_file' = json_file ) ]_vars

\* C9 as amended: such a run leaves data.json byte for byte as it was, and
\* statistics.md as it was but for the time in its line 'analyzed N entries
\* on <time>', which is the time of the run.
C9_IdempotentButForTheTimestamp ==
    [][ /\ IsRepeatedRun("export_json") => json_file' = json_file
        /\ IsRepeatedRun("generate_statistics")
              => /\ WithoutTimestamp(statistics_file') = WithoutTimestamp(statistics_file)
                 /\ Contains(statistics_file', << " entries on ", Timestamp(clock) >>)
       ]_vars

\* both passes have completed twice, generate_statistics at two times
C9_Witness ==
    /\ \E i, j \in DOMAIN log :
          /\ i < j
          /\ log[i].op = "export_json" /\ log[i].exc = NoExc
          /\ log[j].op = "export_json" /\ log[j].exc = NoExc
    /\ \E i, j \in DOMAIN log :
          /\ i < j
          /\ log[i].op = "generate_statistics" /\ log[i].exc = NoExc
          /\ log[j].op = "generate_statistics" /\ log[j].exc = NoExc
          /\ log[i].at # log[j].at

\* --------------------------------------------------------------- C10
Completed(op) == \E i \in DOMAIN log : log[i].op = op /\ log[i].exc = NoExc

\* C10: once update_readme and update_category_tocs have both completed, the
\* count in the README line of every category is the number of bullet lines
\* of its TOC file, and the README's total is the number of all bullet lines.
C10_ReadmeCountsAgreeWithTocs ==
    ( Completed("update_readme") /\ Completed("update_category_tocs") )
    => /\ \A c \in DOMAIN games :
             ReadmeCount(readme_file, games[c].name) = ToString(Bullets(games[c].toc))
       /\ ReadmeTotal(readme_file)
             = ToString(Sum(Map(games, LAMBDA category : Bullets(category.toc))))

====
